---- MODULE Spec2Model ----
(***************************************************************************)
(* Model of the infinite reference-many list controller:                   *)
(*   useInfiniteReferenceManyFieldController  (src/unnamed/part_000)       *)
(*   useInfiniteGetMany                       (src/unnamed/part_001)       *)
(* The controller state (page, perPage, sort, filters), the query cache    *)
(* that useInfiniteQuery keeps per query key, the calls to                  *)
(* dataProvider.getManyReference that are in flight, and the getOne record *)
(* cache filled by the promotion effect.                                   *)
(*                                                                         *)
(* The query cache is the one of @tanstack/react-query v5 with its default *)
(* options except retry, which is taken as off: staleTime 0, fetchNextPage *)
(* / fetchPreviousPage / refetch with cancelRefetch = true, no maxPages,   *)
(* no garbage collection of cached queries within a run.                   *)
(***************************************************************************)
EXTENDS Integers, Sequences, FiniteSets, TLC

VARIABLES
    props,              \* the caller's props: record id, target, meta, default filter, queryOptions.enabled
    page,               \* usePaginationState: page
    perPage,            \* usePaginationState: perPage
    sort,               \* useSortState
    filterValues,       \* useSafeSetState(filter)
    displayedFilters,   \* useSafeSetState({})
    filterRef,          \* useRef(filter)
    queries,            \* the query cache: query key -> query state
    calls,              \* calls to dataProvider.getManyReference not yet settled
    getOne,             \* the getOne cache: <<String(id), meta>> -> record
    nCalls,             \* number of calls to dataProvider.getManyReference so far
    nOps,               \* number of controller operations / prop changes so far
    budget,             \* the bounds of the run: [calls, ops, sizes]
    last,               \* the last step taken: [op, applied, current]
    debounced,          \* the timer of debouncedSetFilters and the arguments it holds
    edits,              \* the last setFilters call, and whether the user edited the
                        \* filters since the default filter was last taken
    emitted,            \* what the effects of the last step called: notify and onSuccess
    selection,          \* two controller instances and the selection store they use
    probe               \* inputs and outputs of the cursor functions applied on their own

vars == <<props, page, perPage, sort, filterValues, displayedFilters, filterRef,
          queries, calls, getOne, nCalls, nOps, budget, last, debounced, edits,
          emitted, selection, probe>>

----------------------------------------------------------------------------
(* Values *)

\* null
Null == "null"

\* undefined (an absent prop, an absent field)
Undefined == "undefined"

\* the values for which x != null is false and x ?? y is y
Absent == {Null, Undefined}

\* an undefined total
NoTotal == -1

\* the reference prop (the referenced resource)
Reference == "comments"

MAX_DATA_LENGTH_TO_CACHE == 100

\* bounds of the runs
MaxCalls == 2
MaxOps == 1
MaxPagingCalls == 4
MaxPromoCalls == 3
MaxControlOps == 3
MaxErrorCalls == 4

OwnerIds == {"a", "b"}
Targets == {"post_id", "author_id"}
Metas == {Undefined, Null, "m1"}
Sorts == {[field |-> "id", order |-> "DESC"], [field |-> "id", order |-> "ASC"]}
PageChoices == {1, 2}
PerPageChoices == {1, 2}
FilterNames == {"q", "post_id"}
FilterInputValues == {"x", ""}
EnabledOptions == {"unset", "true", "false"}
\* what a call may reject with: an Error with message "boom", the plain
\* string "oops", an Error with an empty message
Errors == {"boom", "oops", "nomsg"}
ErrorValue ==
    [e \in Errors |->
        CASE e = "boom" -> [isString |-> FALSE, message |-> "boom"]
          [] e = "oops" -> [isString |-> TRUE, message |-> "oops"]
          [] OTHER -> [isString |-> FALSE, message |-> ""]]

\* pageInfo of a page result; present = FALSE when the result carries none
NoPageInfo == [present |-> FALSE, hasNextPage |-> FALSE, hasPreviousPage |-> FALSE]
PageInfos == {NoPageInfo} \cup
             {[present |-> TRUE, hasNextPage |-> n, hasPreviousPage |-> p] : n, p \in BOOLEAN}

\* what the data provider may answer: the number of records, their version,
\* the total and the pageInfo
Answers(sizes, totals, infos, versions) ==
    [size : sizes, total : totals, pageInfo : infos, v : versions]

SmallAnswers ==
    Answers({1}, {3}, {NoPageInfo}, {0})
PagingAnswers ==
    Answers({1}, {3}, {NoPageInfo, [present |-> TRUE, hasNextPage |-> TRUE, hasPreviousPage |-> TRUE],
                       [present |-> TRUE, hasNextPage |-> FALSE, hasPreviousPage |-> TRUE]}, {0})
TotalsAnswers ==
    Answers({1}, {0, 3}, {NoPageInfo}, {0})
ErrorsAnswers ==
    Answers({1}, {2, 3}, {NoPageInfo}, {0})
PromoAnswers ==
    Answers({10, 50, 60}, {NoTotal}, {[present |-> TRUE, hasNextPage |-> TRUE, hasPreviousPage |-> FALSE]}, {0, 1})

\* filter maps: functions from a set of filter names to values
MapsOver(names, values) == UNION {[d -> values] : d \in SUBSET names}

EmptyMap == [n \in {} |-> ""]

Last(s) == s[Len(s)]

RECURSIVE SumLen(_)
SumLen(s) == IF s = <<>> THEN 0 ELSE Len(s[1].data) + SumLen(Tail(s))

RECURSIVE Concat(_)
Concat(s) == IF s = <<>> THEN <<>> ELSE s[1].data \o Concat(Tail(s))

CeilDiv(a, b) == (a + b - 1) \div b

----------------------------------------------------------------------------
(* useInfiniteGetMany: the cursor functions *)

Some(v) == [has |-> TRUE, val |-> v]
Nothing == [has |-> FALSE, val |-> 0]

\* getNextPageParam that looks at the total even when pageInfo is there
getNextPageParamTotalOnly(lastLoadedPage, pp) ==
    IF lastLoadedPage.pageParam < CeilDiv(IF lastLoadedPage.total = NoTotal THEN 0 ELSE lastLoadedPage.total, pp)
    THEN Some(lastLoadedPage.pageParam + 1)
    ELSE Nothing

\* getNextPageParam with Math.floor in place of Math.ceil
getNextPageParamFloor(lastLoadedPage, pp) ==
    IF lastLoadedPage.pageInfo.present
    THEN IF lastLoadedPage.pageInfo.hasNextPage
         THEN Some(lastLoadedPage.pageParam + 1)
         ELSE Nothing
    ELSE IF lastLoadedPage.pageParam < (IF lastLoadedPage.total = NoTotal THEN 0 ELSE lastLoadedPage.total) \div pp
         THEN Some(lastLoadedPage.pageParam + 1)
         ELSE Nothing

getNextPageParam(lastLoadedPage, pp) ==
    IF lastLoadedPage.pageInfo.present
    THEN IF lastLoadedPage.pageInfo.hasNextPage
         THEN Some(lastLoadedPage.pageParam + 1)
         ELSE Nothing
    ELSE LET totalPages == CeilDiv(IF lastLoadedPage.total = NoTotal THEN 0 ELSE lastLoadedPage.total, pp)
         IN IF lastLoadedPage.pageParam < totalPages
            THEN Some(lastLoadedPage.pageParam + 1)
            ELSE Nothing

\* getPreviousPageParam without the test for page 1
getPreviousPageParamBelowOne(lastLoadedPage) ==
    IF lastLoadedPage.pageInfo.present
    THEN IF lastLoadedPage.pageInfo.hasPreviousPage
         THEN Some(lastLoadedPage.pageParam - 1)
         ELSE Nothing
    ELSE Some(lastLoadedPage.pageParam - 1)

getPreviousPageParam(lastLoadedPage) ==
    IF lastLoadedPage.pageInfo.present
    THEN IF lastLoadedPage.pageInfo.hasPreviousPage
         THEN Some(lastLoadedPage.pageParam - 1)
         ELSE Nothing
    ELSE IF lastLoadedPage.pageParam = 1
         THEN Nothing
         ELSE Some(lastLoadedPage.pageParam - 1)

----------------------------------------------------------------------------
(* useInfiniteReferenceManyFieldController: the request the controller composes *)

\* filter: { [target]: get(record, source), ...filterValues }
RequestFilterUserWins(fv, target, rid) ==
    [n \in (DOMAIN fv) \cup {target} |-> IF n \in DOMAIN fv THEN fv[n] ELSE rid]

\* filter: { ...filterValues, [target]: get(record, source) }
RequestFilter(fv, target, rid) ==
    [n \in (DOMAIN fv) \cup {target} |-> IF n = target THEN rid ELSE fv[n]]

\* what the hash of a query key keeps of an object: JSON.stringify leaves
\* out the properties whose value is undefined
DropUndefined(o) == [n \in {m \in DOMAIN o : o[m] # Undefined} |-> o[n]]

\* a query key without the filter
QueryKeyNoFilter(resource, id, target, pg, pp, so, filter, meta) ==
    [resource |-> resource, id |-> id, target |-> target, page |-> pg,
     perPage |-> pp, sort |-> so, filter |-> EmptyMap, meta |-> meta]

\* a query key with pagination: { perPage } only
QueryKeyNoPage(resource, id, target, pg, pp, so, filter, meta) ==
    [resource |-> resource, id |-> id, target |-> target, page |-> 1,
     perPage |-> pp, sort |-> so, filter |-> DropUndefined(filter), meta |-> meta]

\* queryKey: [resource, 'getInfiniteMany', { id, target, pagination, sort, filter, meta }]
\* as the query cache tells keys apart, by their hash (an undefined meta is a
\* property left out, which the value Undefined stands for)
QueryKey(resource, id, target, pg, pp, so, filter, meta) ==
    [resource |-> resource, id |-> id, target |-> target, page |-> pg,
     perPage |-> pp, sort |-> so, filter |-> DropUndefined(filter), meta |-> meta]

\* the key of the query the controller asks for: recordId ?? '' is the id
KeyOf(p, pg, pp, so, fv) ==
    QueryKey(Reference, IF p.rid \in Absent THEN "" ELSE p.rid, p.target, pg, pp, so,
             RequestFilter(fv, p.target, p.rid), p.meta)

\* { enabled: get(record, source) != null, ...queryOptions }
Enabled(p) ==
    IF p.enabled = "unset" THEN p.rid \notin Absent ELSE p.enabled = "true"

KeyNow == KeyOf(props, page, perPage, sort, filterValues)

\* what queryFn gives dataProvider.getManyReference besides the page:
\* resource, { target, id, pagination: { perPage }, sort, filter, meta }
ReqOf(p, pp, so, fv) ==
    [resource |-> Reference, target |-> p.target,
     id |-> IF p.rid \in Absent THEN "" ELSE p.rid,
     perPage |-> pp, sort |-> so, filter |-> RequestFilter(fv, p.target, p.rid),
     meta |-> p.meta]

ReqNow == ReqOf(props, perPage, sort, filterValues)

\* removeEmpty: drops the entries whose value is '', null or undefined
removeEmpty(filters) ==
    [n \in {m \in DOMAIN filters : filters[m] \notin {"", Null, Undefined}} |-> filters[n]]

----------------------------------------------------------------------------
(* The query cache *)

FreshQuery ==
    [pages |-> <<>>, status |-> "pending", fetchStatus |-> "idle", error |-> Null,
     errorAt |-> 0, direction |-> "none", call |-> 0, acc |-> <<>>, want |-> 0]

NoQueries == [k \in {} |-> FreshQuery]

Ensure(qs, k) ==
    IF k \in DOMAIN qs THEN qs
    ELSE [x \in (DOMAIN qs) \cup {k} |-> IF x = k THEN FreshQuery ELSE qs[x]]

\* the records the data provider holds for a cursor: ids grow with the cursor
ServerData(cursor, a) ==
    [i \in 1..a.size |-> [id |-> cursor * MAX_DATA_LENGTH_TO_CACHE + i, v |-> a.v]]

\* queryFn's result: { data, total, pageParam, pageInfo, meta }
\* (from and by record the request and the call that produced the page)
MakePage(c, a) ==
    [pageParam |-> c.cursor, data |-> ServerData(c.cursor, a), total |-> a.total,
     pageInfo |-> a.pageInfo, from |-> c.req, by |-> c.id]

\* the cursor a fetch of the given kind starts at
StartCursor(q, k, kind) ==
    IF q.pages = <<>> THEN k.page
    ELSE CASE kind = "forward" -> getNextPageParam(Last(q.pages), k.perPage).val
           [] kind = "backward" -> getPreviousPageParam(q.pages[1]).val
           [] OTHER -> q.pages[1].pageParam

\* query.fetch: one call to queryFn, the query goes to fetching
StartFetch(qs, cs, n, k, req, kind) ==
    LET q == qs[k]
        hasData == q.pages # <<>>
        q2 == [q EXCEPT !.fetchStatus = "fetching", !.direction = kind, !.call = n + 1,
                        !.acc = <<>>, !.want = Len(q.pages),
                        !.status = IF hasData THEN @ ELSE "pending",
                        !.error = IF hasData THEN @ ELSE Null,
                        !.errorAt = IF hasData THEN @ ELSE 0]
    IN [queries |-> [qs EXCEPT ![k] = q2],
        calls |-> cs \cup {[id |-> n + 1, key |-> k, req |-> req,
                             cursor |-> StartCursor(q, k, kind)]},
        nCalls |-> n + 1]

\* the observer takes the query of key k; it fetches when the key is new to it
\* (or the query was disabled), the query is enabled and nothing is in flight
Observe(k, req, en, trigger, qs, cs, n) ==
    LET qs1 == Ensure(qs, k)
    IN IF trigger /\ en /\ qs1[k].fetchStatus = "idle"
       THEN StartFetch(qs1, cs, n, k, req, "all")
       ELSE [queries |-> qs1, calls |-> cs, nCalls |-> n]

\* what the effects of useInfiniteGetMany depend on: data, error, isFetching
Observed(k, qs) ==
    [data |-> IF qs[k].pages = <<>> THEN <<>> ELSE <<k, qs[k].pages>>,
     error |-> qs[k].error,
     errorAt |-> qs[k].errorAt,
     isFetching |-> qs[k].fetchStatus = "fetching"]

----------------------------------------------------------------------------
(* useInfiniteGetMany: the getOne cache population effect *)

\* no record under a key of the getOne cache
NoRecord == [id |-> 0, v |-> -1]

\* an updater that always takes the new record
UpdaterOverwrite(oldRecord, record) == record

\* the updater given to queryClient.setQueryData: oldRecord => oldRecord ?? record
Updater(oldRecord, record) ==
    IF oldRecord # NoRecord THEN oldRecord ELSE record

\* the updater applied for the records at the indices idxs, in their order
RECURSIVE setQueryData(_, _, _)
setQueryData(oldRecord, recs, idxs) ==
    IF idxs = {} THEN oldRecord
    ELSE LET i == CHOOSE j \in idxs : \A m \in idxs : j <= m
         IN setQueryData(Updater(oldRecord, recs[i]), recs, idxs \ {i})

\* pages.forEach(page => page.data.forEach(record => setQueryData(...)))
Promote(g, recs, meta) ==
    LET keys == {<<recs[i].id, meta>> : i \in 1..Len(recs)}
    IN [x \in (DOMAIN g) \cup keys |->
           setQueryData(IF x \in DOMAIN g THEN g[x] ELSE NoRecord, recs,
                        {i \in 1..Len(recs) : <<recs[i].id, meta>> = x})]

\* the effect without the MAX_DATA_LENGTH_TO_CACHE test
PromotionEffectNoCeiling(g, q, meta) ==
    IF q.pages = <<>> \/ q.error # Null \/ q.fetchStatus = "fetching" THEN g
    ELSE Promote(g, Concat(q.pages), meta)

PromotionEffect(g, q, meta) ==
    IF q.pages = <<>> \/ q.error # Null \/ q.fetchStatus = "fetching" THEN g
    ELSE IF SumLen(q.pages) <= MAX_DATA_LENGTH_TO_CACHE
         THEN Promote(g, Concat(q.pages), meta)
         ELSE g

----------------------------------------------------------------------------
(* useInfiniteGetMany: the callbacks; the controller's onError *)

NoOutput == [notify |-> <<>>, onSuccess |-> <<>>]

\* the effect calling onSuccess first and filling the getOne cache after
SuccessEffectCallbackFirst(g, q, meta) ==
    IF q.pages = <<>> \/ q.error # Null \/ q.fetchStatus = "fetching"
    THEN [getOne |-> g, onSuccess |-> <<>>]
    ELSE [getOne |-> PromotionEffect(g, q, meta),
          onSuccess |-> <<[data |-> q.pages, cache |-> g]>>]

\* the effect on [data, error, isFetching]: the getOne cache is filled, then
\* onSuccessEvent(result.data) is called (cache: the getOne cache at the call)
SuccessEffect(g, q, meta) ==
    IF q.pages = <<>> \/ q.error # Null \/ q.fetchStatus = "fetching"
    THEN [getOne |-> g, onSuccess |-> <<>>]
    ELSE LET g2 == PromotionEffect(g, q, meta)
         IN [getOne |-> g2, onSuccess |-> <<[data |-> q.pages, cache |-> g2]>>]

\* the controller's onError: the text given to notify
NotifyText(e) ==
    IF ErrorValue[e].isString THEN ErrorValue[e].message
    ELSE IF ErrorValue[e].message # "" THEN ErrorValue[e].message
         ELSE "ra.notification.http_error"

\* an error effect that does not look at isFetching
ErrorEffectWhileFetching(q) ==
    IF q.error = Null THEN <<>> ELSE <<NotifyText(q.error)>>

\* the effect on [error, isFetching]: onErrorEvent(result.error)
ErrorEffect(q) ==
    IF q.error = Null \/ q.fetchStatus = "fetching" THEN <<>>
    ELSE <<NotifyText(q.error)>>

----------------------------------------------------------------------------
(* One render: the new controller state, the new cache, and the effects *)

Commit(p, pg, pp, so, fv, df, fr, qs, cs, n, ops, l) ==
    LET k == KeyOf(p, pg, pp, so, fv)
    IN /\ props' = p
       /\ page' = pg
       /\ perPage' = pp
       /\ sort' = so
       /\ filterValues' = fv
       /\ displayedFilters' = df
       /\ filterRef' = fr
       /\ queries' = qs
       /\ calls' = cs
       /\ nCalls' = n
       /\ nOps' = ops
       /\ last' = l
       /\ getOne' = IF Observed(k, qs) # Observed(KeyNow, queries)
                     THEN SuccessEffect(getOne, qs[k], p.meta).getOne
                     ELSE getOne
       /\ emitted' =
             [notify |-> IF <<Observed(k, qs).error, Observed(k, qs).errorAt,
                              Observed(k, qs).isFetching>> #
                            <<Observed(KeyNow, queries).error, Observed(KeyNow, queries).errorAt,
                              Observed(KeyNow, queries).isFetching>>
                         THEN ErrorEffect(qs[k])
                         ELSE <<>>,
              onSuccess |-> IF Observed(k, qs) # Observed(KeyNow, queries)
                            THEN SuccessEffect(getOne, qs[k], p.meta).onSuccess
                            ELSE <<>>]
       /\ UNCHANGED <<budget, selection, probe>>

\* a change of the controller state or of the props, then the render
Change(p, pg, pp, so, fv, df, fr, name) ==
    LET k == KeyOf(p, pg, pp, so, fv)
        o == Observe(k, ReqOf(p, pp, so, fv), Enabled(p), k # KeyNow \/ ~Enabled(props),
                     queries, calls, nCalls)
    IN /\ nOps < budget.ops
       /\ <<p, pg, pp, so, fv, df, fr>> #
             <<props, page, perPage, sort, filterValues, displayedFilters, filterRef>>
       /\ o.nCalls <= budget.calls
       /\ Commit(p, pg, pp, so, fv, df, fr, o.queries, o.calls, o.nCalls, nOps + 1,
                 [op |-> name, applied |-> FALSE, current |-> TRUE])

----------------------------------------------------------------------------
(* What the controller returns *)

\* data?.pages?.reduce((acc, page) => [...acc, ...page.data], [])
unwrappedData == Concat(queries[KeyNow].pages)

\* total: result.data?.pages[0]?.total ?? undefined
total == IF queries[KeyNow].pages = <<>> THEN NoTotal ELSE queries[KeyNow].pages[1].total

hasNextPage ==
    queries[KeyNow].pages # <<>> /\ getNextPageParam(Last(queries[KeyNow].pages), perPage).has

hasPreviousPage ==
    queries[KeyNow].pages # <<>> /\ getPreviousPageParam(queries[KeyNow].pages[1]).has

\* a result that looks at the data before the error
ControllerResultDataFirst ==
    LET q == queries[KeyNow]
    IN IF q.pages # <<>>
       THEN [error |-> Null, hasData |-> TRUE, data |-> unwrappedData,
             total |-> IF total = NoTotal THEN -1 ELSE total,
             isLoading |-> FALSE, isPending |-> FALSE]
       ELSE IF q.error # Null
            THEN [error |-> q.error, hasData |-> FALSE, data |-> <<>>, total |-> NoTotal,
                  isLoading |-> FALSE, isPending |-> FALSE]
            ELSE [error |-> Null, hasData |-> FALSE, data |-> <<>>, total |-> NoTotal,
                  isLoading |-> TRUE, isPending |-> TRUE]

\* the three shapes of the result; hasData = FALSE stands for data: undefined,
\* and total: NoTotal for total: undefined
ControllerResult ==
    LET q == queries[KeyNow]
    IN IF q.error # Null
       THEN [error |-> q.error, hasData |-> FALSE, data |-> <<>>, total |-> NoTotal,
             isLoading |-> FALSE, isPending |-> FALSE]
       ELSE IF q.status = "pending"
            THEN [error |-> Null, hasData |-> FALSE, data |-> <<>>, total |-> NoTotal,
                  isLoading |-> TRUE, isPending |-> TRUE]
            ELSE [error |-> Null, hasData |-> TRUE, data |-> unwrappedData,
                  total |-> IF total = NoTotal THEN -1 ELSE total,
                  isLoading |-> FALSE, isPending |-> FALSE]

----------------------------------------------------------------------------
(* The controller's operations and the changes of its props *)

DisplayedInputs == MapsOver({"q"}, {TRUE})

\* usePaginationState: setPage
SetPage(n) ==
    /\ Change(props, n, perPage, sort, filterValues, displayedFilters, filterRef, "setPage")
    /\ UNCHANGED <<debounced, edits>>

\* usePaginationState: setPerPage also goes back to page 1
SetPerPage(n) ==
    /\ Change(props, 1, n, sort, filterValues, displayedFilters, filterRef, "setPerPage")
    /\ UNCHANGED <<debounced, edits>>

\* a setSort that leaves the page where it is
SetSortKeepPage(s) ==
    /\ Change(props, page, perPage, s, filterValues, displayedFilters, filterRef, "setSort")
    /\ UNCHANGED <<debounced, edits>>

\* setSort: setSortState(sort); setPage(1)
SetSort(s) ==
    /\ Change(props, 1, perPage, s, filterValues, displayedFilters, filterRef, "setSort")
    /\ UNCHANGED <<debounced, edits>>

\* setFilters(filters, displayedFilters, debounce = false)
SetFilters(filters, displayed) ==
    /\ Change(props, 1, perPage, sort, removeEmpty(filters), displayed, filterRef, "setFilters")
    /\ edits' = [called |-> TRUE, filters |-> removeEmpty(filters), displayed |-> displayed,
                 debounce |-> FALSE, edited |-> TRUE]
    /\ UNCHANGED debounced

ShowFilter(filterName, defaultValue) ==
    /\ Change(props, page, perPage, sort,
              [n \in (DOMAIN filterValues) \cup {filterName} |->
                  IF n = filterName THEN defaultValue ELSE filterValues[n]],
              [n \in (DOMAIN displayedFilters) \cup {filterName} |->
                  IF n = filterName THEN TRUE ELSE displayedFilters[n]],
              filterRef, "showFilter")
    /\ edits' = [edits EXCEPT !.edited = TRUE]
    /\ UNCHANGED debounced

HideFilter(filterName) ==
    /\ Change(props, page, perPage, sort,
              [n \in (DOMAIN filterValues) \ {filterName} |-> filterValues[n]],
              [n \in (DOMAIN displayedFilters) \ {filterName} |-> displayedFilters[n]],
              filterRef, "hideFilter")
    /\ edits' = [edits EXCEPT !.edited = TRUE]
    /\ UNCHANGED debounced

\* the record, target, meta or queryOptions.enabled prop changes
SetProp(p) ==
    /\ p # props
    /\ p.filter = props.filter
    /\ Change(p, page, perPage, sort, filterValues, displayedFilters, filterRef, "setProp")
    /\ UNCHANGED <<debounced, edits>>

\* the filter prop changes: this render still has the filter values and the
\* filterRef it had
SetDefaultFilter(f) ==
    /\ f # props.filter
    /\ Change([props EXCEPT !.filter = f], page, perPage, sort, filterValues,
              displayedFilters, filterRef, "setDefaultFilter")
    /\ UNCHANGED <<debounced, edits>>

\* the effect after a render: when the filter prop differs (isEqual) from
\* filterRef.current, filterRef.current = filter and setFilterValues(filter),
\* which renders again
FilterEffect ==
    LET k == KeyOf(props, page, perPage, sort, props.filter)
        o == Observe(k, ReqOf(props, perPage, sort, props.filter), Enabled(props),
                     k # KeyNow \/ ~Enabled(props), queries, calls, nCalls)
    IN /\ props.filter # filterRef
       /\ o.nCalls <= budget.calls
       /\ Commit(props, page, perPage, sort, props.filter, displayedFilters, props.filter,
                 o.queries, o.calls, o.nCalls, nOps,
                 [op |-> "filterEffect", applied |-> FALSE, current |-> TRUE])
       /\ edits' = [edits EXCEPT !.edited = FALSE]
       /\ UNCHANGED debounced

----------------------------------------------------------------------------
(* debouncedSetFilters: lodash debounce, trailing edge, one timer *)

\* no call is waiting (n counts the calls the timer held when it last ran)
NoTimer == [armed |-> FALSE, filters |-> EmptyMap, displayed |-> EmptyMap, n |-> 0]

\* a debounce that keeps the arguments of the first call of the window
ScheduleFirstArgs(d, filters, displayed) ==
    IF d.armed THEN [d EXCEPT !.n = @ + 1]
    ELSE [armed |-> TRUE, filters |-> filters, displayed |-> displayed, n |-> 1]

\* a call of the debounced function: the timer restarts and keeps the
\* arguments of this call
Schedule(d, filters, displayed) ==
    [armed |-> TRUE, filters |-> filters, displayed |-> displayed,
     n |-> IF d.armed THEN d.n + 1 ELSE 1]

\* setFilters(filters, displayedFilters, debounce = true): nothing is set yet
SetFiltersDebounced(filters, displayed) ==
    /\ nOps < budget.ops
    /\ debounced' = Schedule(debounced, filters, displayed)
    /\ edits' = [called |-> TRUE, filters |-> removeEmpty(filters), displayed |-> displayed,
                 debounce |-> TRUE, edited |-> TRUE]
    /\ nOps' = nOps + 1
    /\ last' = [op |-> "setFiltersDebounced", applied |-> FALSE, current |-> TRUE]
    /\ emitted' = NoOutput
    /\ UNCHANGED <<props, page, perPage, sort, filterValues, displayedFilters, filterRef,
                   queries, calls, getOne, nCalls, budget, selection, probe>>

\* the window elapses with no further call: the debounced function runs with
\* the arguments the timer holds (a commit that changes nothing re-renders
\* nothing)
DebounceFires ==
    LET fv == removeEmpty(debounced.filters)
        df == debounced.displayed
    IN /\ debounced.armed
       /\ debounced' = [debounced EXCEPT !.armed = FALSE]
       /\ UNCHANGED edits
       /\ IF <<1, fv, df>> = <<page, filterValues, displayedFilters>>
          THEN /\ emitted' = NoOutput
               /\ UNCHANGED <<props, page, perPage, sort, filterValues, displayedFilters,
                              filterRef, queries, calls, getOne, nCalls, nOps, budget, last,
                              selection, probe>>
          ELSE Change(props, 1, perPage, sort, fv, df, filterRef, "debounced")

----------------------------------------------------------------------------
(* The query's operations: fetchNextPage, fetchPreviousPage, refetch *)

\* (the direction of a fetch shows only while it is in flight, as
\* isFetchingNextPage / isFetchingPreviousPage)
Idle(q) ==
    [q EXCEPT !.fetchStatus = "idle", !.status = "success", !.error = Null,
              !.errorAt = 0, !.call = 0, !.acc = <<>>, !.want = 0, !.direction = "none"]

\* a fetch asked of the current query by the caller (cancelRefetch = true):
\* with no data yet and a fetch in flight it joins that fetch; otherwise a
\* fetch in flight is dropped and a new one starts; fetching a page past the
\* end settles at once with the data there is
Fetch(kind, name) ==
    LET k == KeyNow
        q == queries[k]
        busy == q.fetchStatus = "fetching"
        hasData == q.pages # <<>>
        param == CASE kind = "forward" /\ hasData -> getNextPageParam(Last(q.pages), k.perPage)
                   [] kind = "backward" /\ hasData -> getPreviousPageParam(q.pages[1])
                   [] OTHER -> Some(0)
        o == IF busy /\ ~hasData
             THEN [queries |-> queries, calls |-> calls, nCalls |-> nCalls]
             ELSE IF ~param.has
                  THEN [queries |-> [queries EXCEPT ![k] = Idle(q)],
                        calls |-> calls, nCalls |-> nCalls]
                  ELSE StartFetch(queries, calls, nCalls, k, ReqNow, kind)
    IN /\ o.nCalls <= budget.calls
       /\ Commit(props, page, perPage, sort, filterValues, displayedFilters, filterRef,
                 o.queries, o.calls, o.nCalls, nOps,
                 IF o.queries = queries THEN last
                 ELSE [op |-> name, applied |-> o.nCalls > nCalls, current |-> TRUE])
       /\ UNCHANGED <<debounced, edits>>

FetchNextPage == Fetch("forward", "fetchNextPage")

FetchPreviousPage == Fetch("backward", "fetchPreviousPage")

Refetch == Fetch("all", "refetch")

----------------------------------------------------------------------------
(* The data provider answers *)

AnswerSet(tag) ==
    CASE tag = "paging" -> PagingAnswers
      [] tag = "promo" -> PromoAnswers
      [] tag = "errors" -> ErrorsAnswers
      [] tag = "totals" -> TotalsAnswers
      [] OTHER -> SmallAnswers

ErrorSet(tag) == IF tag = "errors" THEN Errors ELSE {"boom"}

\* a settled call reporting to whatever query the controller shows now
TargetKeyCurrent(c) == KeyNow

\* the query a settled call reports to: the one of the key it was made under
TargetKey(c) == c.key

\* the call is the one the query waits for (not one a later fetch replaced)
Attached(q, c) == q.fetchStatus = "fetching" /\ q.call = c.id

\* every fetched page put at the end
AddPageAtEnd(pages, pg, direction) == Append(pages, pg)

\* where a fetched page goes in the page sequence
AddPage(pages, pg, direction) ==
    IF direction = "backward" THEN <<pg>> \o pages ELSE Append(pages, pg)

\* getManyReference resolves
Resolve(c, a) ==
    LET k == TargetKey(c)
        q == queries[k]
        live == Attached(queries[c.key], c)
        pg == MakePage(c, a)
        more == q.direction \in {"forward", "backward"} /\ q.pages # <<>>
        acc2 == Append(q.acc, pg)
        next == getNextPageParam(pg, k.perPage)
        cont == ~more /\ Len(acc2) < q.want /\ next.has
        q2 == IF more THEN [Idle(q) EXCEPT !.pages = AddPage(q.pages, pg, q.direction)]
              ELSE IF cont THEN [q EXCEPT !.acc = acc2, !.call = nCalls + 1]
              ELSE [Idle(q) EXCEPT !.pages = acc2]
        cs == IF live /\ cont
              THEN (calls \ {c}) \cup {[id |-> nCalls + 1, key |-> k, req |-> c.req,
                                          cursor |-> next.val]}
              ELSE calls \ {c}
        n == IF live /\ cont THEN nCalls + 1 ELSE nCalls
    IN /\ c \in calls
       /\ k \in DOMAIN queries
       /\ n <= budget.calls
       /\ Commit(props, page, perPage, sort, filterValues, displayedFilters, filterRef,
                 IF live THEN [queries EXCEPT ![k] = q2] ELSE queries, cs, n, nOps,
                 [op |-> "resolve", applied |-> live, current |-> c.key = KeyNow])
       /\ UNCHANGED <<debounced, edits>>

\* getManyReference rejects
Reject(c, e) ==
    LET k == TargetKey(c)
        q == queries[k]
        live == Attached(queries[c.key], c)
        q2 == [q EXCEPT !.fetchStatus = "idle", !.status = "error", !.error = e,
                        !.errorAt = c.id, !.call = 0, !.acc = <<>>, !.want = 0, !.direction = "none"]
    IN /\ c \in calls
       /\ k \in DOMAIN queries
       /\ Commit(props, page, perPage, sort, filterValues, displayedFilters, filterRef,
                 IF live THEN [queries EXCEPT ![k] = q2] ELSE queries, calls \ {c},
                 nCalls, nOps, [op |-> "reject", applied |-> live, current |-> c.key = KeyNow])
       /\ UNCHANGED <<debounced, edits>>

----------------------------------------------------------------------------
(* The selection of two controller instances: storeKey, useRecordSelection *)

\* identifiers are numbers or strings; text is what String(id) gives
Identifiers == {[isNumber |-> TRUE, text |-> "1"], [isNumber |-> FALSE, text |-> "1"],
                [isNumber |-> FALSE, text |-> "2"]}

\* owner records: their id and another field a source prop may name
OwnerRecords == [id : Identifiers, owner_id : {i \in Identifiers : ~i.isNumber}]

\* the props of an instance that matter for its selection
Instances == [resource : {"posts"}, record : OwnerRecords, source : {"id", "owner_id"},
              storeKey : {Undefined, "mine"}]

\* get(record, source): the owner record's identifying value
OwnerValue(i) == IF i.source = "id" THEN i.record.id ELSE i.record.owner_id

\* storeKey: props.storeKey ?? `${resource}.${record?.id}.${reference}`
StoreKey(i) ==
    IF i.storeKey \notin Absent THEN i.storeKey
    ELSE i.resource \o "." \o i.record.id.text \o "." \o Reference

SelectableIds == {101, 102}

Selections == {<<x>> : x \in SelectableIds}

NoSelection ==
    [inst |-> <<CHOOSE i \in Instances : TRUE, CHOOSE i \in Instances : TRUE>>,
     store |-> [k \in {} |-> <<>>], by |-> 0]

\* selectedIds of instance n: useRecordSelection({ resource: storeKey })
SelectedIds(sel, n) ==
    IF StoreKey(sel.inst[n]) \in DOMAIN sel.store THEN sel.store[StoreKey(sel.inst[n])]
    ELSE <<>>

\* instance n writes ids under its store key
WriteSelection(n, ids) ==
    /\ selection' = [selection EXCEPT
          !.store = [k \in (DOMAIN @) \cup {StoreKey(selection.inst[n])} |->
                        IF k = StoreKey(selection.inst[n]) THEN ids ELSE @[k]],
          !.by = n]
    /\ UNCHANGED <<props, page, perPage, sort, filterValues, displayedFilters, filterRef,
                   queries, calls, getOne, nCalls, nOps, budget, last, debounced, edits,
                   emitted, probe>>

\* onSelect: selectionModifiers.select
Select(n, ids) == WriteSelection(n, ids)

\* onToggleItem: selectionModifiers.toggle
Toggle(n, id) ==
    LET ids == SelectedIds(selection, n)
    IN WriteSelection(n, IF \E j \in 1..Len(ids) : ids[j] = id
                         THEN SelectSeq(ids, LAMBDA x : x # id)
                         ELSE Append(ids, id))

\* onUnselectItems: selectionModifiers.clearSelection
ClearSelection(n) == WriteSelection(n, <<>>)

----------------------------------------------------------------------------
(* The cursor functions applied on their own *)

ProbeCursors == 0..5
ProbeTotals == {NoTotal, 0, 1, 25, 50, 95, 100}
ProbePerPages == {1, 10, 25}

NoProbe == [page |-> [pageParam |-> 1, total |-> NoTotal, pageInfo |-> NoPageInfo],
            perPage |-> 1, next |-> Nothing, prev |-> Nothing, applied |-> FALSE]

Advance(c, t, info, pp) ==
    LET pg == [pageParam |-> c, total |-> t, pageInfo |-> info]
    IN /\ probe' = [page |-> pg, perPage |-> pp, next |-> getNextPageParam(pg, pp),
                    prev |-> getPreviousPageParam(pg), applied |-> TRUE]
       /\ UNCHANGED <<props, page, perPage, sort, filterValues, displayedFilters,
                      filterRef, queries, calls, getOne, nCalls, nOps, budget, last,
                      debounced, edits, emitted, selection>>

----------------------------------------------------------------------------
(* Specifications *)

\* the state after the first render: the query of the initial key is observed
InitController(rids, filters, pages, perPages, b) ==
    /\ props \in [rid : rids, target : {"post_id"}, meta : {Undefined},
                   filter : filters, enabled : {"unset"}]
    /\ page \in pages
    /\ perPage \in perPages
    /\ sort = [field |-> "id", order |-> "DESC"]
    /\ filterValues = props.filter
    /\ displayedFilters = EmptyMap
    /\ filterRef = props.filter
    /\ LET o == Observe(KeyNow, ReqNow, Enabled(props), TRUE, NoQueries, {}, 0)
       IN /\ queries = o.queries
          /\ calls = o.calls
          /\ nCalls = o.nCalls
    /\ getOne = [x \in {} |-> NoRecord]
    /\ nOps = 0
    /\ budget = b
    /\ last = [op |-> "init", applied |-> FALSE, current |-> TRUE]
    /\ debounced = NoTimer
    /\ emitted = NoOutput
    /\ edits = [called |-> FALSE, filters |-> EmptyMap, displayed |-> EmptyMap,
                debounce |-> FALSE, edited |-> FALSE]
    /\ probe = NoProbe

InitWith(rids, filters, pages, perPages, b) ==
    /\ InitController(rids, filters, pages, perPages, b)
    /\ selection = NoSelection

Init ==
    InitWith({Undefined, "a"}, {EmptyMap}, {1}, {1}, [calls |-> MaxCalls, ops |-> MaxOps, answers |-> "small"])

Settle ==
    \E c \in calls :
        \/ \E a \in AnswerSet(budget.answers) : Resolve(c, a)
        \/ \E e \in ErrorSet(budget.answers) : Reject(c, e)

\* the controller with its query: changes of the key while calls are in flight
\* (showFilter, hideFilter, the debounce and the default filter are in
\* NextControls)
Next ==
    \/ \E n \in PageChoices : SetPage(n)
    \/ \E n \in PerPageChoices : SetPerPage(n)
    \/ \E s \in Sorts : SetSort(s)
    \/ \E f \in MapsOver({"q"}, FilterInputValues), d \in DisplayedInputs : SetFilters(f, d)
    \/ \E rid \in OwnerIds \cup Absent : SetProp([props EXCEPT !.rid = rid])
    \/ \E t \in Targets : SetProp([props EXCEPT !.target = t])
    \/ \E m \in Metas : SetProp([props EXCEPT !.meta = m])
    \/ \E e \in EnabledOptions : SetProp([props EXCEPT !.enabled = e])
    \/ FetchNextPage
    \/ FetchPreviousPage
    \/ Refetch
    \/ Settle

Spec == Init /\ [][Next]_vars

\* one owner, no change of the controller state: paging only
InitPaging ==
    InitWith({"a"}, {EmptyMap}, {1, 2}, {1, 2}, [calls |-> MaxPagingCalls, ops |-> 0, answers |-> "paging"])

NextPaging ==
    \/ FetchNextPage
    \/ FetchPreviousPage
    \/ Refetch
    \/ Settle

SpecPaging == InitPaging /\ [][NextPaging]_vars

\* pages of 10, 50 and 60 records
InitPromo ==
    InitWith({"a"}, {EmptyMap}, {1}, {25}, [calls |-> MaxPromoCalls, ops |-> 0, answers |-> "promo"])

NextPromo ==
    \/ FetchNextPage
    \/ Refetch
    \/ Settle

SpecPromo == InitPromo /\ [][NextPromo]_vars

InitAdvance ==
    InitWith({Undefined}, {EmptyMap}, {1}, {1}, [calls |-> 0, ops |-> 0, answers |-> "small"])

NextAdvance ==
    \E c \in ProbeCursors, t \in ProbeTotals, info \in PageInfos, pp \in ProbePerPages :
        Advance(c, t, info, pp)

SpecAdvance == InitAdvance /\ [][NextAdvance]_vars

\* the controller's operations alone: no call settles
FilterChoices == MapsOver(FilterNames, {"x"}) \cup {[n \in {"q"} |-> ""]}

InitControls ==
    InitWith({"a"}, {EmptyMap}, {1, 2}, {1},
             [calls |-> 2 * MaxControlOps + 1, ops |-> MaxControlOps, answers |-> "small"])

NextControls ==
    \/ \E n \in PageChoices : SetPage(n)
    \/ \E s \in Sorts : SetSort(s)
    \/ \E f \in FilterChoices, d \in DisplayedInputs : SetFilters(f, d)
    \/ \E f \in FilterChoices, d \in DisplayedInputs : SetFiltersDebounced(f, d)
    \/ DebounceFires
    \/ \E n \in FilterNames : ShowFilter(n, "x")
    \/ \E n \in FilterNames : HideFilter(n)
    \/ \E t \in Targets : SetProp([props EXCEPT !.target = t])
    \/ \E f \in MapsOver({"q"}, {"x"}) : SetDefaultFilter(f)
    \/ FilterEffect

SpecControls == InitControls /\ [][NextControls]_vars

\* one query whose calls resolve or reject with any of the error values
InitErrors ==
    InitWith({"a"}, {EmptyMap}, {1}, {1},
             [calls |-> MaxErrorCalls, ops |-> 0, answers |-> "errors"])

NextErrors ==
    \/ FetchNextPage
    \/ Refetch
    \/ Settle

SpecErrors == InitErrors /\ [][NextErrors]_vars

\* two instances of the controller and their selections
InitSelection ==
    /\ InitController({Undefined}, {EmptyMap}, {1}, {1}, [calls |-> 0, ops |-> 0, answers |-> "small"])
    /\ selection \in [inst : Instances \X Instances, store : {[k \in {} |-> <<>>]}, by : {0}]

NextSelection ==
    \E n \in {1, 2} :
        \/ \E ids \in Selections : Select(n, ids)
        \/ \E id \in SelectableIds : Toggle(n, id)
        \/ ClearSelection(n)

SpecSelection == InitSelection /\ [][NextSelection]_vars

\* paging of one query whose results carry a total and no pageInfo
InitTotals ==
    InitWith({"a"}, {EmptyMap}, {1, 2}, {1, 2},
             [calls |-> MaxPagingCalls, ops |-> 0, answers |-> "totals"])

NextTotals ==
    \/ FetchNextPage
    \/ FetchPreviousPage
    \/ Refetch
    \/ Settle

SpecTotals == InitTotals /\ [][NextTotals]_vars

----------------------------------------------------------------------------
(* Properties *)

Range(f) == {f[i] : i \in DOMAIN f}

\* the request fields a query key stands for (the key without its page)
ReqOfKey(k) ==
    [resource |-> k.resource, target |-> k.target, id |-> k.id, perPage |-> k.perPage,
     sort |-> k.sort, filter |-> k.filter, meta |-> k.meta]

\* a request as a key tells it apart from others
Hashed(req) == [req EXCEPT !.filter = DropUndefined(@)]

\* the current query has data, no error and no fetch in flight
Settled ==
    /\ queries[KeyNow].pages # <<>>
    /\ queries[KeyNow].error = Null
    /\ queries[KeyNow].fetchStatus = "idle"

\* C1: the page sequence visible under the current key holds only pages that
\* were fetched with the current request fields (owner id, target, perPage,
\* sort, filter, meta), never pages fetched under another key; and the first
\* fetch of a key that has no page yet is at the initial cursor, the
\* controller's page.
C1_FreshSequencePerKey ==
    /\ \A i \in 1..Len(queries[KeyNow].pages) : queries[KeyNow].pages[i].from = ReqNow
    /\ \A c \in calls :
          (c.key = KeyNow /\ Attached(queries[KeyNow], c) /\ queries[KeyNow].pages = <<>>)
              => (c.cursor = page /\ c.req = ReqNow)

\* pages were loaded under one key, the controller went to another key, and
\* the other key has its own page
C1_Witness ==
    /\ queries[KeyNow].pages # <<>>
    /\ \E k \in DOMAIN queries :
          k # KeyNow /\ ReqOfKey(k) # Hashed(ReqNow) /\ queries[k].pages # <<>>

\* only the page of the controller changes in this step
OnlyPageChanges ==
    page' # page /\ UNCHANGED <<props, perPage, sort, filterValues>>

\* C2 as stated: changing only the page keeps the query key and the loaded
\* page sequence.
C2_Original ==
    [][OnlyPageChanges =>
          (KeyNow' = KeyNow /\ queries'[KeyNow'].pages = queries[KeyNow].pages)]_vars

\* C2 amended: the pages of one query were all requested with the same fields
\* except the page; but the controller's page is part of the query key, so a
\* step that changes only the page changes the key while the other request
\* fields stay, and a key not seen before starts with no page and, when the
\* query is enabled, a fetch at the new page.
C2_PageIsPartOfKey ==
    /\ [](\A k \in DOMAIN queries : \A i \in 1..Len(queries[k].pages) :
              Hashed(queries[k].pages[i].from) = ReqOfKey(k))
    /\ [][OnlyPageChanges =>
            /\ KeyNow' # KeyNow
            /\ ReqNow' = ReqNow
            /\ KeyNow' \notin DOMAIN queries =>
                  /\ queries'[KeyNow'].pages = <<>>
                  /\ Enabled(props) =>
                        \E c \in calls' : c.key = KeyNow' /\ c.cursor = page']_vars

\* setPage was called with pages loaded: they stay under the old key, and the
\* new key has none
C2_Witness ==
    /\ last.op = "setPage"
    /\ queries[KeyNow].pages = <<>>
    /\ \E k \in DOMAIN queries :
          k # KeyNow /\ ReqOfKey(k) = Hashed(ReqNow) /\ queries[k].pages # <<>>

\* C3: for a page result with pageInfo, a next cursor exists iff
\* pageInfo.hasNextPage and is c + 1, a previous cursor exists iff
\* pageInfo.hasPreviousPage and is c - 1, whatever total, perPage and c are.
C3_PageInfoAuthoritative ==
    (probe.applied /\ probe.page.pageInfo.present) =>
        /\ probe.next.has = probe.page.pageInfo.hasNextPage
        /\ probe.next.has => probe.next.val = probe.page.pageParam + 1
        /\ probe.prev.has = probe.page.pageInfo.hasPreviousPage
        /\ probe.prev.has => probe.prev.val = probe.page.pageParam - 1

\* pageInfo says there is no next page where the total says there is one
C3_Witness ==
    /\ probe.applied
    /\ probe.page.pageInfo.present
    /\ ~probe.page.pageInfo.hasNextPage
    /\ probe.page.total = 95 /\ probe.perPage = 25 /\ probe.page.pageParam = 1
    /\ ~probe.next.has

\* ceil(t / pp): the least n with n * pp >= t
TotalPages(t, pp) == CHOOSE n \in 0..t : n * pp >= t /\ \A m \in 0..(n - 1) : m * pp < t

\* C4: for a page result without pageInfo and with a total, a next cursor
\* exists iff c < ceil(total / perPage) and is c + 1, a previous cursor exists
\* iff c # 1 and is c - 1.
C4_TotalDerived ==
    (probe.applied /\ ~probe.page.pageInfo.present /\ probe.page.total # NoTotal) =>
        /\ probe.next.has = (probe.page.pageParam < TotalPages(probe.page.total, probe.perPage))
        /\ probe.next.has => probe.next.val = probe.page.pageParam + 1
        /\ probe.prev.has = (probe.page.pageParam # 1)
        /\ probe.prev.has => probe.prev.val = probe.page.pageParam - 1

\* total 95, perPage 25, page 3: a next page, 4
C4_Witness ==
    /\ probe.applied
    /\ ~probe.page.pageInfo.present
    /\ probe.page.total = 95 /\ probe.perPage = 25 /\ probe.page.pageParam = 3
    /\ probe.next = Some(4)
    /\ probe.prev = Some(2)

\* the records of the pages with cursors lo..hi, in the order of the cursors
RECURSIVE RecordsOfCursors(_, _, _)
RecordsOfCursors(ps, lo, hi) ==
    IF lo > hi THEN <<>>
    ELSE (CHOOSE pg \in Range(ps) : pg.pageParam = lo).data \o RecordsOfCursors(ps, lo + 1, hi)

\* C5: the loaded pages are in the order of their cursors, which are
\* consecutive, whatever the order the fetches were made and settled in: the
\* flattened data is records(lo) ++ ... ++ records(hi).
C5_PrependCorrect ==
    LET ps == queries[KeyNow].pages
        cs == {ps[i].pageParam : i \in 1..Len(ps)}
    IN ps # <<>> =>
          LET lo == CHOOSE c \in cs : \A d \in cs : c <= d
              hi == CHOOSE c \in cs : \A d \in cs : c >= d
          IN /\ cs = lo..hi
             /\ Len(ps) = hi - lo + 1
             /\ unwrappedData = RecordsOfCursors(ps, lo, hi)

\* cursors 1, 2, 3 were loaded in that order, then cursor 0 by a backward fetch
C5_Witness ==
    LET ps == queries[KeyNow].pages
    IN /\ Len(ps) = 4
       /\ [i \in 1..4 |-> ps[i].pageParam] = <<0, 1, 2, 3>>
       /\ ps[2].by < ps[3].by /\ ps[3].by < ps[4].by /\ ps[4].by < ps[1].by
       /\ unwrappedData = ps[1].data \o ps[2].data \o ps[3].data \o ps[4].data
       /\ Settled

\* C6 as stated: at most one call to getManyReference is in flight for a
\* query key and a cursor.
C6_OneFetchPerKeyAndCursor ==
    \A c1, c2 \in calls : (c1.key = c2.key /\ c1.cursor = c2.cursor) => c1 = c2

\* C7: when a call made under a key that is no longer the current one
\* settles (resolves or rejects), the current query, the result the controller
\* returns and the getOne cache stay as they are.
C7_StaleFetchSuppressed ==
    [][\A c \in calls :
          (c \notin calls' /\ c.key # KeyNow) =>
              /\ queries'[KeyNow'] = queries[KeyNow]
              /\ ControllerResult' = ControllerResult
              /\ getOne' = getOne]_vars

\* a call of a superseded key has settled and its query took the outcome
C7_Witness ==
    /\ last.op \in {"resolve", "reject"}
    /\ last.applied
    /\ ~last.current

\* C8: in a settled state with at most 100 records every record of every
\* loaded page has an entry in the getOne cache, and no step changes or
\* removes an entry the cache already has.
C8_FirstWriterWins ==
    /\ []((Settled /\ Len(unwrappedData) <= MAX_DATA_LENGTH_TO_CACHE) =>
              \A i \in 1..Len(unwrappedData) :
                  <<unwrappedData[i].id, props.meta>> \in DOMAIN getOne)
    /\ [][\A x \in DOMAIN getOne : x \in DOMAIN getOne' /\ getOne'[x] = getOne[x]]_vars

\* a refetch brought another version of a record that was promoted before:
\* the cache still holds the earlier one
C8_Witness ==
    /\ Settled
    /\ Len(unwrappedData) <= MAX_DATA_LENGTH_TO_CACHE
    /\ \E i \in 1..Len(unwrappedData) :
          /\ <<unwrappedData[i].id, props.meta>> \in DOMAIN getOne
          /\ getOne[<<unwrappedData[i].id, props.meta>>] # unwrappedData[i]

\* C9 as stated: when the loaded pages hold more than 100 records, the getOne
\* cache has no entry for a record of any of them.
C9_Original ==
    (Settled /\ Len(unwrappedData) > MAX_DATA_LENGTH_TO_CACHE) =>
        \A i \in 1..Len(unwrappedData) :
            <<unwrappedData[i].id, props.meta>> \notin DOMAIN getOne

\* C9 amended: a step that ends with more than 100 records loaded writes
\* nothing to the getOne cache (what earlier settlements with at most 100
\* records wrote stays).
C9_NoWriteAboveCeiling ==
    [][Len(unwrappedData') > MAX_DATA_LENGTH_TO_CACHE => getOne' = getOne]_vars

\* a page of 50 then a page of 60: the cache holds the 50 records of the
\* first settlement and none of the second page
C9_Witness ==
    /\ Settled
    /\ last.op = "resolve"
    /\ Len(queries[KeyNow].pages) = 2
    /\ Len(queries[KeyNow].pages[1].data) = 50
    /\ Len(queries[KeyNow].pages[2].data) = 60
    /\ DOMAIN getOne = {<<queries[KeyNow].pages[1].data[i].id, props.meta>> : i \in 1..50}

\* C10 as stated: no call to getManyReference is made with the empty id that
\* stands for an absent owner id, and while the owner id is absent the
\* controller returns the pending shape.
C10_DisabledWhileOwnerAbsent ==
    /\ \A c \in calls : c.req.id # ""
    /\ props.rid \in Absent =>
          /\ ControllerResult.isPending
          /\ ~ControllerResult.hasData
          /\ ControllerResult.error = Null

\* a step in which setFilters was called with debounce = true
DebouncedCall == nOps' = nOps + 1 /\ last'.op = "setFiltersDebounced"

\* a step in which the debounce timer ran
TimerRan == debounced.armed /\ ~debounced'.armed

\* C11: a setFilters call with debounce = true commits nothing when it is
\* made (filter values, displayed filters and page stay); when the timer runs,
\* after a window whose last setFilters call was a debounced one, the one
\* commit it makes sets the filter values and the displayed filters to the
\* sanitized arguments of that last call and the page to 1, and leaves no
\* timer behind, so no earlier call of the window is ever committed.
C11_DebouncedCommit ==
    [][/\ DebouncedCall => UNCHANGED <<filterValues, displayedFilters, page>>
       /\ (TimerRan /\ edits.debounce) =>
              /\ filterValues' = edits.filters
              /\ displayedFilters' = edits.displayed
              /\ page' = 1
              /\ debounced' = [debounced EXCEPT !.armed = FALSE]]_vars

\* the timer ran after a window of at least two debounced calls and
\* committed, from page 2, the arguments it held
C11_Witness ==
    /\ ~debounced.armed
    /\ debounced.n >= 2
    /\ last.op = "debounced"
    /\ edits.debounce
    /\ filterValues = removeEmpty(debounced.filters)
    /\ filterValues # EmptyMap
    /\ page = 1

\* C12: once the default filter changed (by deep comparison with the one seen
\* before), the filter values equal the new default for as long as the user
\* makes no later edit (setFilters, showFilter, hideFilter): nothing asked
\* for before the change, a debounced setFilters still waiting included, sets
\* them afterwards.
C12_DefaultOverridesPendingEdit ==
    ~edits.edited => filterValues = filterRef

\* C13: setSort(s) makes s the current sort and 1 the current page, whatever
\* the state it is called in, and leaves filterValues and displayedFilters
\* as they are.
C13_SetSortResetsPage ==
    [][\A s \in Sorts :
          SetSort(s) => /\ sort' = s
                        /\ page' = 1
                        /\ UNCHANGED <<filterValues, displayedFilters>>]_vars

\* setSort was called on page 2 with filters set and shown: the query of
\* page 2 with these filters was the current one before
C13_Witness ==
    /\ last.op = "setSort"
    /\ page = 1
    /\ sort.order = "ASC"
    /\ filterValues # EmptyMap
    /\ displayedFilters # EmptyMap
    /\ \E k \in DOMAIN queries :
          k.page = 2 /\ k.filter = RequestFilter(filterValues, props.target, props.rid)

\* C14: in the request the controller composes now, in the query key, and in
\* every call made to the data provider, the filter maps the target field to
\* the owner record's identifying value, also when the filter values of the
\* user hold another value for the target field.
C14_OwnerLinkage ==
    /\ ReqNow.filter[props.target] = props.rid
    /\ KeyNow.filter = DropUndefined(ReqNow.filter)
    /\ \A c \in calls :
          IF c.req.id = "" THEN c.req.filter[c.req.target] \in Absent
          ELSE c.req.filter[c.req.target] = c.req.id

\* the user's filter values hold another value for the target field, and a
\* call was made for the request composed from them
C14_Witness ==
    /\ props.target \in DOMAIN filterValues
    /\ filterValues[props.target] # props.rid
    /\ \E c \in calls : c.key = KeyNow /\ c.req = ReqNow

\* the error the controller observes and whether a fetch is in flight
ErrorSeen == <<queries[KeyNow].error, queries[KeyNow].errorAt,
               queries[KeyNow].fetchStatus = "fetching">>

\* the current query has an error and no fetch in flight
SettledError ==
    queries[KeyNow].error # Null /\ queries[KeyNow].fetchStatus = "idle"

\* C15: a step that takes the observed query into a settled error (a fetch
\* of it was rejected) calls notify exactly once, with the error itself when
\* it is a string, else its message when not empty, else
\* 'ra.notification.http_error', and the result carries that error; no other
\* step calls notify: none while a fetch is in flight, none while the same
\* settled error stays.
C15_NotifyOncePerError ==
    [][/\ (SettledError' /\ ErrorSeen' # ErrorSeen) =>
              /\ emitted'.notify = <<NotifyText(queries'[KeyNow'].error)>>
              /\ ControllerResult'.error = queries'[KeyNow'].error
              /\ NotifyText(queries'[KeyNow'].error) =
                    (CASE queries'[KeyNow'].error = "boom" -> "boom"
                       [] queries'[KeyNow'].error = "oops" -> "oops"
                       [] OTHER -> "ra.notification.http_error")
       /\ ~(SettledError' /\ ErrorSeen' # ErrorSeen) => emitted'.notify = <<>>]_vars

\* a refetch of a query that had data and an error was rejected with message
\* "boom": one notification "boom"
C15_Witness ==
    /\ last.op = "reject"
    /\ queries[KeyNow].pages # <<>>
    /\ queries[KeyNow].error = "boom"
    /\ queries[KeyNow].errorAt = 3
    /\ ControllerResult.error = "boom"
    /\ emitted.notify = <<"boom">>

\* the number of records in the pages before page i
RecordsBefore(pages, i) == SumLen(SubSeq(pages, 1, i - 1))

\* C16: the result has one of three shapes. With an error on the query, also
\* when pages were loaded before: the error, no data, no total, isPending
\* false. With no error and no page resolved yet: no data, no total,
\* isPending true. Otherwise: the records of all the loaded pages in the
\* order of the page sequence, the total of the first page or -1 when it
\* reported none, isPending false.
C16_ResultShape ==
    LET q == queries[KeyNow]
        r == ControllerResult
    IN /\ q.error # Null =>
             r = [error |-> q.error, hasData |-> FALSE, data |-> <<>>, total |-> NoTotal,
                  isLoading |-> FALSE, isPending |-> FALSE]
       /\ (q.error = Null /\ q.pages = <<>>) =>
             r = [error |-> Null, hasData |-> FALSE, data |-> <<>>, total |-> NoTotal,
                  isLoading |-> TRUE, isPending |-> TRUE]
       /\ (q.error = Null /\ q.pages # <<>>) =>
             /\ r.error = Null /\ r.hasData /\ ~r.isPending /\ ~r.isLoading
             /\ Len(r.data) = SumLen(q.pages)
             /\ \A i \in 1..Len(q.pages) : \A j \in 1..Len(q.pages[i].data) :
                   r.data[RecordsBefore(q.pages, i) + j] = q.pages[i].data[j]
             /\ r.total = (IF q.pages[1].total = NoTotal THEN -1 ELSE q.pages[1].total)

\* two pages reporting different totals are loaded and a later fetch was
\* rejected: the result is the error shape
C16_Witness ==
    /\ Len(queries[KeyNow].pages) = 2
    /\ queries[KeyNow].pages[1].total # queries[KeyNow].pages[2].total
    /\ queries[KeyNow].error # Null
    /\ queries[KeyNow].fetchStatus = "idle"
    /\ ~ControllerResult.hasData
    /\ ControllerResult.error = queries[KeyNow].error

\* C17: when neither instance is given a storeKey and the identifying values
\* of their owner records differ, the store keys of the two instances differ,
\* and a select, toggle or clearSelection of one instance leaves the selected
\* ids of the other as they were.
C17_SelectionIsolated ==
    [][(/\ selection.inst[1].storeKey = Undefined
        /\ selection.inst[2].storeKey = Undefined
        /\ OwnerValue(selection.inst[1]) # OwnerValue(selection.inst[2])) =>
          /\ StoreKey(selection.inst[1]) # StoreKey(selection.inst[2])
          /\ \A n \in {1, 2} :
                selection'.by = n =>
                    SelectedIds(selection', 3 - n) = SelectedIds(selection, 3 - n)]_vars

\* what the effects of useInfiniteGetMany see of the current query
Seen == Observed(KeyNow, queries)

\* C18: a step after which the observed query is a settled success (data, no
\* error, no fetch in flight) that was not observed before calls onSuccess
\* once, with the whole page sequence, and the getOne cache the callback
\* finds is the cache after this settlement's promotion (holding every record
\* of the pages when they are at most MAX_DATA_LENGTH_TO_CACHE, untouched
\* otherwise); no other step calls onSuccess, so it is never called with a
\* fetch in flight or an error present.
C18_SuccessAfterPromotion ==
    [][/\ (Settled' /\ Seen' # Seen) =>
              /\ emitted'.onSuccess = <<[data |-> queries'[KeyNow'].pages, cache |-> getOne']>>
              /\ IF SumLen(queries'[KeyNow'].pages) <= MAX_DATA_LENGTH_TO_CACHE
                 THEN \A i \in 1..Len(queries'[KeyNow'].pages) :
                         \A j \in 1..Len(queries'[KeyNow'].pages[i].data) :
                            <<queries'[KeyNow'].pages[i].data[j].id, props'.meta>> \in DOMAIN getOne'
                 ELSE getOne' = getOne
       /\ ~(Settled' /\ Seen' # Seen) => emitted'.onSuccess = <<>>]_vars

\* onSuccess was called with two pages whose records the promotion of this
\* settlement had put in the getOne cache
C18_Witness ==
    /\ Len(emitted.onSuccess) = 1
    /\ Len(emitted.onSuccess[1].data) = 2
    /\ emitted.onSuccess[1].data = queries[KeyNow].pages
    /\ emitted.onSuccess[1].cache = getOne
    /\ \A i \in 1..2 : \A j \in 1..Len(queries[KeyNow].pages[i].data) :
          <<queries[KeyNow].pages[i].data[j].id, props.meta>> \in DOMAIN getOne

\* C19: when no result carries pageInfo and the initial cursor is at least 1,
\* the cursors of the loaded pages, in the order of the page sequence, go up
\* by 1 from one page to the next, and no call is made, and no page loaded,
\* for a cursor below 1.
C19_CursorsConsecutiveFromOne ==
    /\ \A c \in calls : c.cursor >= 1
    /\ \A k \in DOMAIN queries :
          /\ \A i \in 1..Len(queries[k].pages) : queries[k].pages[i].pageParam >= 1
          /\ \A i \in 1..(Len(queries[k].pages) - 1) :
                queries[k].pages[i + 1].pageParam = queries[k].pages[i].pageParam + 1

\* from the initial cursor 2 the pages 1, 2, 3 are loaded, page 1 by a
\* backward fetch; there is no page before it
C19_Witness ==
    /\ page = 2
    /\ Len(queries[KeyNow].pages) = 3
    /\ queries[KeyNow].pages[1].pageParam = 1
    /\ queries[KeyNow].pages[1].by > queries[KeyNow].pages[2].by
    /\ queries[KeyNow].fetchStatus = "idle"
    /\ ~hasPreviousPage

\* C20: the last setFilters call wins. When the timer runs, the filter values
\* and the displayed filters become the sanitized arguments of the last
\* setFilters call if that call was a debounced one, and stay as they are if
\* it was not: a commit that was waiting does not overwrite what a later
\* setFilters without debounce has set.
C20_LastSetFiltersWins ==
    [][TimerRan =>
          IF edits.debounce
          THEN filterValues' = edits.filters /\ displayedFilters' = edits.displayed
          ELSE UNCHANGED <<filterValues, displayedFilters>>]_vars

====
